---- MODULE Spec2Model ----
(***************************************************************************)
(* Model of bytematch (src/src/main.rs): the deployment-provenance         *)
(* pipeline of main(), the metadata stripper remove_metadata() and the     *)
(* project preparation of configure_project().                              *)
(*                                                                         *)
(* Strings are sequences of one-character strings; byte strings are        *)
(* sequences of integers in 0..255.                                        *)
(***************************************************************************)
EXTENDS Integers, Sequences, FiniteSets, TLC

\* ------------------------------------------------------------------------
\* Bounds of the model
\* ------------------------------------------------------------------------
\* longest trace list returned by the RPC node
MaxTraces == 2
\* longest bytecode string given to remove_metadata in SpecNorm
MaxLen == 8

\* ------------------------------------------------------------------------
\* Text and bytes
\* ------------------------------------------------------------------------
\* the metadata delimiter searched by remove_metadata: "a264"
Marker == <<"a", "2", "6", "4">>

\* hex::encode's digit table (lower case), used by Bytes' Display
HexLower == <<"0", "1", "2", "3", "4", "5", "6", "7",
              "8", "9", "a", "b", "c", "d", "e", "f">>

\* the same digits in upper case, a form an external tool may print
HexUpper == <<"0", "1", "2", "3", "4", "5", "6", "7",
              "8", "9", "A", "B", "C", "D", "E", "F">>

\* hex encoding of a byte string with a given digit table
RECURSIVE HexEncode(_, _)
HexEncode(bytes, digits) ==
    IF bytes = <<>> THEN <<>>
    ELSE <<digits[(Head(bytes) \div 16) + 1], digits[(Head(bytes) % 16) + 1]>>
         \o HexEncode(Tail(bytes), digits)

\* ethers Bytes::to_string(): "0x" followed by lower-case hex
BytesToString(bytes) == <<"0", "x">> \o HexEncode(bytes, HexLower)

\* ASCII lower-casing of one character (only hex letters occur)
LowerChar(c) ==
    CASE c = "A" -> "a" [] c = "B" -> "b" [] c = "C" -> "c"
      [] c = "D" -> "d" [] c = "E" -> "e" [] c = "F" -> "f"
      [] OTHER -> c

\* ASCII lower-casing of a string
ToLower(s) == [i \in 1..Len(s) |-> LowerChar(s[i])]

\* s has an occurrence of pat starting at (1-based) position i
OccursAt(s, pat, i) ==
    /\ i >= 1
    /\ i + Len(pat) - 1 <= Len(s)
    /\ SubSeq(s, i, i + Len(pat) - 1) = pat

\* the positions at which pat occurs in s
Occurrences(s, pat) == {i \in 1..Len(s) : OccursAt(s, pat, i)}

\* the largest element of a non-empty set of integers
SetMax(S) == CHOOSE m \in S : \A n \in S : n <= m

\* str::rfind: position of the last occurrence, 0 for None
RFind(s, pat) ==
    IF Occurrences(s, pat) = {} THEN 0 ELSE SetMax(Occurrences(s, pat))

\* remove_metadata with an empty result when the delimiter is absent
remove_metadata_empty_on_none(bytecode) ==
    IF RFind(bytecode, Marker) # 0
    THEN SubSeq(bytecode, 1, RFind(bytecode, Marker) - 1)
    ELSE <<>>

\* remove_metadata: everything before the last "a264", else the input
remove_metadata(bytecode) ==
    IF RFind(bytecode, Marker) # 0
    THEN SubSeq(bytecode, 1, RFind(bytecode, Marker) - 1)
    ELSE bytecode


\* ------------------------------------------------------------------------
\* Inputs of a run
\* ------------------------------------------------------------------------
\* the contract address given on the command line
Target == "target"

\* the addresses a creation in the transaction can result in
Addresses == {"target", "other"}

\* init code of a contract: PUSH 0x60, then metadata a2 64 01
InitA == <<96, 162, 100, 1>>

\* the same code as InitA with other metadata bytes
InitAOtherMeta == <<96, 162, 100, 2>>

\* init code that differs from InitA in its first (code) byte
InitB == <<97, 162, 100, 1>>

\* the init payloads carried by Create actions of the trace
TraceInits == {InitA, InitB}

\* the bytecodes the compiler can produce for the contract
BuildCodes == {InitAOtherMeta, InitB}

\* ethers Trace: action_type, action (Action enum), result (Option<Res>)
TraceEntries ==
    {[action_type |-> "Call", action |-> "Call", result |-> r,
      address |-> "none", init |-> <<>>] : r \in {"None", "Call"}}
    \cup
    {[action_type |-> "Create", action |-> "Create", result |-> "None",
      address |-> "none", init |-> i] : i \in TraceInits}
    \cup
    {[action_type |-> "Create", action |-> "Create", result |-> "Create",
      address |-> a, init |-> i] : a \in Addresses, i \in TraceInits}

\* the trace lists trace_transaction can return
TraceLists == UNION {[1..n -> TraceEntries] : n \in 0..MaxTraces}

\* stdout of `forge inspect` when it exits with success
InspectOutputs ==
    {[utf8 |-> TRUE, text |-> <<"0", "x">> \o HexEncode(c, d)] :
        c \in BuildCodes, d \in {HexLower, HexUpper}}
    \cup {[utf8 |-> FALSE, text |-> <<>>]}

\* stdout of `forge inspect` when it exits with an error: nothing
InspectFailureOutput == [utf8 |-> TRUE, text |-> <<>>]

\* the external commands run by configure_project and main
Commands == {"clone", "checkout", "yarn", "npm", "forge_install", "inspect"}

\* the characters of the bytecode strings of SpecNorm
NormAlphabet == {"a", "2", "6", "4"}

\* the bytecode strings of SpecNorm
NormStrings == UNION {[1..n -> NormAlphabet] : n \in 0..MaxLen}

\* ------------------------------------------------------------------------
\* State
\* ------------------------------------------------------------------------
VARIABLES
    pc,            \* position of main()
    commit,        \* TRUE iff `commit` is Some(hash)
    trace_result,  \* the traces fetched from the node
    create_trace,  \* the filtered traces
    warned,        \* the "unexpected amount of traces" line was printed
    running,       \* child processes spawned and not yet exited
    started,       \* history: the commands spawned, in order
    failed,        \* history: the commands that exited with an error status
    tmp_exists,    \* the clone target under the temp dir exists
    stdout,        \* compile_output.stdout
    compile_init,  \* normalized build bytecode
    trace_init,    \* normalized on-chain init code
    selected,      \* history: the entry read by create_trace[0], if any
    verdict,       \* "none", "Match" or "Mismatch" (the line printed)
    outcome,       \* "running", "Ok", "Err" or the panic that ended main
    bytecode,      \* SpecNorm: the string given to remove_metadata
    normalized     \* SpecNorm: the results of successive applications

vars == <<pc, commit, trace_result, create_trace, warned, running, started,
          failed, tmp_exists, stdout, compile_init, trace_init, selected,
          verdict, outcome, bytecode, normalized>>

normVars == <<bytecode, normalized>>

traceVars == <<trace_result, create_trace, warned>>

childVars == <<running, started, failed, tmp_exists, stdout>>

resultVars == <<compile_init, trace_init, selected, verdict>>

\* ------------------------------------------------------------------------
\* CreationLocator: the filter closure of main
\* ------------------------------------------------------------------------
\* the closure given to filter, without the address comparison
IsTargetCreationAnyAddress(trace_item, contract) ==
    /\ trace_item.action_type = "Create"
    /\ trace_item.result # "None"
    /\ trace_item.result = "Create"

\* the closure given to filter: a Create with a result for `contract`
IsTargetCreation(trace_item, contract) ==
    /\ trace_item.action_type = "Create"
    /\ trace_item.result # "None"
    /\ trace_item.result = "Create"
    /\ trace_item.address = contract

\* iter().filter(..).collect(): the matching entries, in trace order
RECURSIVE FilterTraces(_, _)
FilterTraces(traces, contract) ==
    IF traces = <<>> THEN <<>>
    ELSE IF IsTargetCreation(Head(traces), contract)
         THEN <<Head(traces)>> \o FilterTraces(Tail(traces), contract)
         ELSE FilterTraces(Tail(traces), contract)

\* ------------------------------------------------------------------------
\* Control flow of configure_project and main
\* ------------------------------------------------------------------------
\* the statement that follows a command once its child has exited
StepAfter(cmd) ==
    CASE cmd = "clone" -> IF commit THEN "checkout" ELSE "package_json"
      [] cmd = "checkout" -> "package_json"
      [] cmd = "yarn" -> "foundry_toml"
      [] cmd = "npm" -> "foundry_toml"
      [] cmd = "forge_install" -> "inspect"
      [] cmd = "inspect" -> "decode"

\* Command::spawn for `forge install`: main goes on without waiting
PcAfterSpawnNoWait(cmd) ==
    IF cmd = "forge_install" THEN StepAfter(cmd) ELSE cmd

\* Command::output blocks: main stays at the command until the child exits
PcAfterSpawn(cmd) == cmd

\* ------------------------------------------------------------------------
\* Initial states
\* ------------------------------------------------------------------------
\* the values the SpecNorm variables keep during a run of the pipeline
NormIdle ==
    /\ bytecode = <<>>
    /\ normalized = <<>>

\* main() after argument parsing: commit is Some(hash) or None
Init ==
    /\ pc = "fetch"
    /\ commit \in BOOLEAN
    /\ trace_result = <<>>
    /\ create_trace = <<>>
    /\ warned = FALSE
    /\ running = {}
    /\ started = <<>>
    /\ failed = {}
    /\ tmp_exists = FALSE
    /\ stdout = [utf8 |-> TRUE, text |-> <<>>]
    /\ compile_init = <<>>
    /\ trace_init = <<>>
    /\ selected = <<>>
    /\ verdict = "none"
    /\ outcome = "running"
    /\ NormIdle

\* ------------------------------------------------------------------------
\* main(): trace retrieval and creation lookup
\* ------------------------------------------------------------------------
\* `?` on an Err: main returns the error
ReturnErr ==
    /\ pc' = "done"
    /\ outcome' = "Err"

\* a panic (panic! or an index out of bounds): the process aborts
Panic(reason) ==
    /\ pc' = "done"
    /\ outcome' = reason

\* client.trace_transaction(tx_hash).await? succeeds
FetchTraces ==
    /\ pc = "fetch"
    /\ \E t \in TraceLists : trace_result' = t
    /\ pc' = "filter"
    /\ UNCHANGED <<commit, create_trace, warned, childVars, resultVars,
                   outcome, normVars>>

\* client.trace_transaction(tx_hash).await? fails
FetchTracesError ==
    /\ pc = "fetch"
    /\ ReturnErr
    /\ UNCHANGED <<commit, traceVars, childVars, resultVars, normVars>>

\* the filter over trace_result and the check of the number of matches
LocateCreation ==
    /\ pc = "filter"
    /\ create_trace' = FilterTraces(trace_result, Target)
    /\ warned' = (Len(FilterTraces(trace_result, Target)) # 1)
    /\ pc' = "clone"
    /\ UNCHANGED <<commit, trace_result, childVars, resultVars, outcome,
                   normVars>>

\* ------------------------------------------------------------------------
\* Command::new(..).output()?
\* ------------------------------------------------------------------------
\* output() is called: the child of cmd is started, or output() is Err
SpawnChild(cmd, spawned) ==
    /\ pc = cmd
    /\ cmd \notin running
    /\ IF spawned
       THEN /\ running' = running \cup {cmd}
            /\ started' = Append(started, cmd)
            /\ pc' = PcAfterSpawn(cmd)
            /\ UNCHANGED outcome
       ELSE /\ ReturnErr
            /\ UNCHANGED <<running, started>>
    /\ UNCHANGED <<commit, traceVars, failed, tmp_exists, stdout,
                   resultVars, normVars>>

\* the child of cmd exits; its exit status is not looked at
ChildExit(cmd, ok) ==
    /\ cmd \in running
    /\ running' = running \ {cmd}
    /\ failed' = IF ok THEN failed ELSE failed \cup {cmd}
    /\ pc' = IF pc = cmd THEN StepAfter(cmd) ELSE pc
    /\ UNCHANGED <<commit, traceVars, started, resultVars, outcome,
                   normVars>>

\* ------------------------------------------------------------------------
\* configure_project
\* ------------------------------------------------------------------------
\* git clone <url> <tmp_folder>
GitClone ==
    /\ pc = "clone"
    /\ \E spawned \in BOOLEAN : SpawnChild("clone", spawned)

\* git clone exits; on success the clone target exists
GitCloneExit ==
    \E ok \in BOOLEAN :
        /\ ChildExit("clone", ok)
        /\ tmp_exists' = (tmp_exists \/ ok)
        /\ UNCHANGED stdout

\* git checkout <hash>, only when a commit hash is set
GitCheckout ==
    /\ pc = "checkout"
    /\ \E spawned \in BOOLEAN : SpawnChild("checkout", spawned)

\* git checkout exits
GitCheckoutExit ==
    \E ok \in BOOLEAN :
        /\ ChildExit("checkout", ok)
        /\ UNCHANGED <<tmp_exists, stdout>>

\* the package.json test and the choice of the installer
CheckPackageJson ==
    /\ pc = "package_json"
    /\ \E exists \in BOOLEAN, yarn \in BOOLEAN, npm \in BOOLEAN :
        pc' = IF ~exists THEN "foundry_toml"
              ELSE IF yarn THEN "yarn"
              ELSE IF npm THEN "npm"
              ELSE "foundry_toml"
    /\ UNCHANGED <<commit, traceVars, childVars, resultVars, outcome,
                   normVars>>

\* yarn install
YarnInstall ==
    /\ pc = "yarn"
    /\ \E spawned \in BOOLEAN : SpawnChild("yarn", spawned)

\* yarn install exits
YarnInstallExit ==
    \E ok \in BOOLEAN :
        /\ ChildExit("yarn", ok)
        /\ UNCHANGED <<tmp_exists, stdout>>

\* npm install
NpmInstall ==
    /\ pc = "npm"
    /\ \E spawned \in BOOLEAN : SpawnChild("npm", spawned)

\* npm install exits
NpmInstallExit ==
    \E ok \in BOOLEAN :
        /\ ChildExit("npm", ok)
        /\ UNCHANGED <<tmp_exists, stdout>>

\* the foundry.toml test and the lookup of forge
CheckFoundryToml ==
    /\ pc = "foundry_toml"
    /\ \E exists \in BOOLEAN, forge \in BOOLEAN :
        pc' = IF exists /\ forge THEN "forge_install" ELSE "inspect"
    /\ UNCHANGED <<commit, traceVars, childVars, resultVars, outcome,
                   normVars>>

\* forge install
ForgeInstall ==
    /\ pc = "forge_install"
    /\ \E spawned \in BOOLEAN : SpawnChild("forge_install", spawned)

\* forge install exits
ForgeInstallExit ==
    \E ok \in BOOLEAN :
        /\ ChildExit("forge_install", ok)
        /\ UNCHANGED <<tmp_exists, stdout>>

\* ------------------------------------------------------------------------
\* main(): compilation, selection and comparison
\* ------------------------------------------------------------------------
\* forge inspect --force <contract_name> bytecode
ForgeInspect ==
    /\ pc = "inspect"
    /\ \E spawned \in BOOLEAN : SpawnChild("inspect", spawned)

\* forge inspect exits; its stdout is kept whatever the exit status
ForgeInspectExit ==
    \/ /\ ChildExit("inspect", TRUE)
       /\ \E out \in InspectOutputs : stdout' = out
       /\ UNCHANGED tmp_exists
    \/ /\ ChildExit("inspect", FALSE)
       /\ stdout' = InspectFailureOutput
       /\ UNCHANGED tmp_exists

\* str::from_utf8 of the stdout, then remove_metadata
DecodeCompileOutput ==
    /\ pc = "decode"
    /\ IF stdout.utf8
       THEN /\ compile_init' = remove_metadata(stdout.text)
            /\ pc' = "select"
            /\ UNCHANGED outcome
       ELSE /\ Panic("PanicUtf8")
            /\ UNCHANGED compile_init
    /\ UNCHANGED <<commit, traceVars, childVars, trace_init, selected,
                   verdict, normVars>>

\* create_trace[0].action: the first filtered entry, whatever their number
SelectTraceInit ==
    /\ pc = "select"
    /\ IF Len(create_trace) = 0
       THEN /\ Panic("PanicIndex")
            /\ UNCHANGED <<trace_init, selected>>
       ELSE /\ selected' = <<create_trace[1]>>
            /\ IF create_trace[1].action = "Create"
               THEN /\ trace_init' =
                        remove_metadata(BytesToString(create_trace[1].init))
                    /\ pc' = "compare"
                    /\ UNCHANGED outcome
               ELSE /\ Panic("PanicNoTrace")
                    /\ UNCHANGED trace_init
    /\ UNCHANGED <<commit, traceVars, childVars, compile_init, verdict,
                   normVars>>

\* compile_init == trace_init, the verdict line, Ok(())
Compare ==
    /\ pc = "compare"
    /\ verdict' = IF compile_init = trace_init THEN "Match" ELSE "Mismatch"
    /\ pc' = "done"
    /\ outcome' = "Ok"
    /\ UNCHANGED <<commit, traceVars, childVars, compile_init, trace_init,
                   selected, normVars>>

Next ==
    \/ FetchTraces
    \/ FetchTracesError
    \/ LocateCreation
    \/ GitClone
    \/ GitCloneExit
    \/ GitCheckout
    \/ GitCheckoutExit
    \/ CheckPackageJson
    \/ YarnInstall
    \/ YarnInstallExit
    \/ NpmInstall
    \/ NpmInstallExit
    \/ CheckFoundryToml
    \/ ForgeInstall
    \/ ForgeInstallExit
    \/ ForgeInspect
    \/ ForgeInspectExit
    \/ DecodeCompileOutput
    \/ SelectTraceInit
    \/ Compare

Spec == Init /\ [][Next]_vars

\* ------------------------------------------------------------------------
\* SpecNorm: remove_metadata applied to bounded strings
\* ------------------------------------------------------------------------
\* the values the pipeline variables keep in SpecNorm
PipelineIdle ==
    /\ pc = "norm"
    /\ commit = FALSE
    /\ trace_result = <<>>
    /\ create_trace = <<>>
    /\ warned = FALSE
    /\ running = {}
    /\ started = <<>>
    /\ failed = {}
    /\ tmp_exists = FALSE
    /\ stdout = [utf8 |-> TRUE, text |-> <<>>]
    /\ compile_init = <<>>
    /\ trace_init = <<>>
    /\ selected = <<>>
    /\ verdict = "none"
    /\ outcome = "running"

InitNorm ==
    /\ PipelineIdle
    /\ bytecode \in NormStrings
    /\ normalized = <<>>

\* remove_metadata(bytecode)
Normalize ==
    /\ pc = "norm"
    /\ normalized = <<>>
    /\ normalized' = <<remove_metadata(bytecode)>>
    /\ UNCHANGED <<pc, commit, traceVars, childVars, resultVars, outcome,
                   bytecode>>

\* remove_metadata applied to the previous result
NormalizeAgain ==
    /\ pc = "norm"
    /\ Len(normalized) = 1
    /\ normalized' = Append(normalized, remove_metadata(normalized[1]))
    /\ UNCHANGED <<pc, commit, traceVars, childVars, resultVars, outcome,
                   bytecode>>

NextNorm ==
    \/ Normalize
    \/ NormalizeAgain

SpecNorm == InitNorm /\ [][NextNorm]_vars

\* ------------------------------------------------------------------------
\* Properties
\* ------------------------------------------------------------------------
\* the filter has been applied to the fetched traces
Located == pc \notin {"fetch", "filter", "norm"}

\* the positions of the creations of the target, stated on the trace itself
TargetCreations ==
    {i \in 1..Len(trace_result) :
        /\ trace_result[i].action_type = "Create"
        /\ trace_result[i].result = "Create"
        /\ trace_result[i].address = Target}

\* b has no "a264" in it, stated character by character
NoMarker(b) ==
    \A i \in 1..(Len(b) - 3) :
        ~(b[i] = "a" /\ b[i + 1] = "2" /\ b[i + 2] = "6" /\ b[i + 3] = "4")

\* C1: when no trace entry is a creation of the target, the run neither
\* crashes on the index into the empty filtered list, nor completes, nor
\* prints a verdict: it ends in the failure NotFound.
C1_ZeroMatchesEndInNotFound ==
    (Located /\ TargetCreations = {}) =>
        /\ outcome # "PanicIndex"
        /\ outcome # "Ok"
        /\ verdict = "none"

\* C2: when two or more trace entries are creations of the target, the run
\* never goes on to compare the init code of one of them and never prints
\* Match or Mismatch: it ends in the failure Ambiguous.
C2_SeveralMatchesEndInAmbiguous ==
    (Located /\ Cardinality(TargetCreations) >= 2) =>
        /\ verdict = "none"
        /\ outcome # "Ok"

\* C3: normalizing a normalized bytecode changes nothing:
\* remove_metadata(remove_metadata(b)) = remove_metadata(b) for every b.
C3_Idempotent ==
    Len(normalized) = 2 => normalized[2] = normalized[1]

\* C4: for b = X || marker || Y where X has no marker in it (Y arbitrary),
\* remove_metadata(b) = X.
C4_TruncatesAtMarkerAfterCleanPrefix ==
    Len(normalized) >= 1 =>
        \A k \in 1..Len(bytecode) :
            (/\ k + 3 <= Len(bytecode)
             /\ SubSeq(bytecode, k, k + 3) = Marker
             /\ NoMarker(SubSeq(bytecode, 1, k - 1)))
            => normalized[1] = SubSeq(bytecode, 1, k - 1)

\* C5: a bytecode with no marker in it is returned unchanged by
\* remove_metadata, character for character.
C5_NoMarkerUnchanged ==
    (Len(normalized) >= 1 /\ NoMarker(bytecode)) =>
        /\ Len(normalized[1]) = Len(bytecode)
        /\ \A i \in 1..Len(bytecode) : normalized[1][i] = bytecode[i]

\* C5 witness: a marker-free bytecode holding a part of the marker has
\* been normalized.
C5_Witness ==
    /\ Len(normalized) >= 1
    /\ NoMarker(bytecode)
    /\ Len(bytecode) >= 4
    /\ SubSeq(bytecode, 1, 3) = <<"a", "2", "6">>

\* C6: when the build output and the on-chain init code are the same hex
\* string up to the letter case of the digits, the verdict is Match.
C6_CaseInsensitiveMatch ==
    (verdict # "none" /\ selected # <<>>) =>
        (ToLower(stdout.text) = ToLower(BytesToString(selected[1].init))
            => verdict = "Match")

\* C7: once a build step (clone, checkout, install, compile) has exited
\* with an error, the run prints no verdict and does not complete.
C7_FailedBuildStepGivesNoVerdict ==
    failed # {} =>
        /\ verdict = "none"
        /\ outcome # "Ok"

\* C8: when the run has ended, by return, error or panic, the temporary
\* project directory it created no longer exists.
C8_TmpDirRemovedAtEnd ==
    pc = "done" => ~tmp_exists

\* C9: when exactly one trace entry is a creation of the target, the entry
\* whose init code is normalized and compared is that entry: a Create
\* with a result whose address is the target, wherever it is in the trace.
C9_SelectedIsTheTargetCreation ==
    (Cardinality(TargetCreations) = 1 /\ selected # <<>>) =>
        /\ selected[1].action_type = "Create"
        /\ selected[1].result = "Create"
        /\ selected[1].address = Target
        /\ \E i \in TargetCreations : trace_result[i] = selected[1]
        /\ pc = "compare" =>
              trace_init = remove_metadata(BytesToString(selected[1].init))

\* C9 witness: the single creation of the target was selected although an
\* entry that is not one precedes it in the trace.
C9_Witness ==
    /\ Cardinality(TargetCreations) = 1
    /\ selected # <<>>
    /\ 1 \notin TargetCreations
    /\ trace_result[1].action_type = "Create"
    /\ pc = "compare"

\* C10: while the compile step runs no other command runs, and no command
\* is started once the compile step has been started.
C10_CompileAfterPreparation ==
    /\ "inspect" \in running => running = {"inspect"}
    /\ \A i \in 1..Len(started) :
          started[i] = "inspect" => i = Len(started)
    /\ pc = "inspect" => running \subseteq {"inspect"}

\* C10 witness: the compile step runs after clone, checkout, an npm
\* package installation and forge install.
C10_Witness ==
    /\ "inspect" \in running
    /\ started = <<"clone", "checkout", "yarn", "forge_install", "inspect">>

====
